---- MODULE Spec2Model ----
(***************************************************************************)
(* Model of the health check dashboard (src/health_check_dashboard.py).    *)
(*                                                                         *)
(* The state is the Streamlit session state the class works on (urls,      *)
(* history, results, checking_in_progress, last_auto_check), the two JSON  *)
(* files it persists to (urls.json, history.json) and the position of the  *)
(* running script.  Streamlit executes main() from the top on every user   *)
(* event and on every st.rerun(): each script run constructs a fresh       *)
(* HealthCheckDashboard, whose __init__ calls load_persisted_data, and     *)
(* then walks through run() section by section.                            *)
(***************************************************************************)
EXTENDS Naturals, Integers, Sequences, FiniteSets, TLC

VARIABLES
    urls,                 \* st.session_state.urls : list of str
    history,              \* st.session_state.history : dict url -> list of outcomes
    results,              \* st.session_state.results : dict url -> outcome
    checking_in_progress, \* st.session_state.checking_in_progress
    last_auto_check,      \* st.session_state.last_auto_check, relative to now
    auto_refresh,         \* the "Enable Auto Refresh" checkbox
    urls_file,            \* content of urls.json
    history_file,         \* content of history.json
    pc,                   \* position of the script run
    click,                \* the button that returns True in this script run
    new_url,              \* "Add new URL" text that came with the pressed Add URL button, "" once handled
    remove_idx,           \* index i of the pressed remove_{i} button, 0 once handled
    button_disabled,      \* the disabled state the Check Now button was rendered with
    run_i,                \* check_all_urls: number of urls the loop has passed
    run_results,          \* check_all_urls: the local results dict
    run_mode,             \* which caller of check_all_urls is active
    now,                  \* the clock: datetime.now() of the last check_url_health call
    probe,                \* check_url_health: input and outcome of the last call (SpecProbe)
    io_failures,          \* number of IOErrors raised so far
    started,              \* number of check_all_urls runs started
    accepted,             \* number of start requests that set the flag False -> True
    probed,               \* targets probed by the current / last run, in call order
    events                \* number of user events so far

vars == <<urls, history, results, checking_in_progress, last_auto_check,
          auto_refresh, urls_file, history_file, pc, click, new_url, remove_idx,
          button_disabled, run_i, run_results, run_mode, now, probe,
          io_failures, started, accepted, probed, events>>

(***************************************************************************)
(* Bounds of the model.                                                    *)
(***************************************************************************)
MaxProbes == 8        \* check_url_health calls in the dashboard (the clock's last tick)
MaxEvents == 2        \* user events (clicks, checkbox changes)
MaxUrls == 5          \* length of the url list that "Add URL" may still extend
MaxIoFailures == 1    \* IOErrors injected into save_persisted_data
MaxHistProbes == 103  \* check_url_health calls of the history-cap specification

(***************************************************************************)
(* Python values.                                                          *)
(***************************************************************************)
\* An optional value: None is the empty tuple, a present value v is <<v>>.
None == <<>>
Some(v) == <<v>>

\* A dict is a function on its key set.
EmptyDict == <<>>
Keys(d) == DOMAIN d
DictSet(d, k, v) == [x \in (DOMAIN d) \cup {k} |-> IF x = k THEN v ELSE d[x]]
DictDel(d, k) == [x \in (DOMAIN d) \ {k} |-> d[x]]

Range(s) == {s[j] : j \in 1..Len(s)}

\* str.startswith
StartsWith(s, prefix) ==
    Len(s) >= Len(prefix) /\ SubSeq(s, 1, Len(prefix)) = prefix

\* list.remove(x): removes the first occurrence of x
RECURSIVE ListRemove(_, _)
ListRemove(s, x) ==
    IF s = <<>> THEN <<>>
    ELSE IF Head(s) = x THEN Tail(s)
    ELSE <<Head(s)>> \o ListRemove(Tail(s), x)

\* The built-in list used when urls.json gives no list.
DefaultUrls ==
    << "https://httpbin.org/status/200",
       "https://httpbin.org/status/404",
       "https://httpbin.org/delay/2",
       "https://jsonplaceholder.typicode.com/posts/1" >>

\* Entries kept per url.
HistoryCap == 100

(***************************************************************************)
(* Files and JSON.  A file is missing, holds text that is not JSON (also   *)
(* what a write that failed half way leaves behind), or holds a JSON       *)
(* value.  JSON arrays and objects carry their type, as isinstance reads   *)
(* it after json.load.                                                     *)
(***************************************************************************)
Missing == [kind |-> "missing"]
InvalidJson == [kind |-> "invalid_json"]
\* bytes that are no text in the encoding open() reads with
Undecodable == [kind |-> "undecodable"]
JsonFile(v) == [kind |-> "json", value |-> v]

JList(items) == [type |-> "list", items |-> items]
JObject(members) == [type |-> "object", members |-> members]
JNumber(n) == [type |-> "number", value |-> n]

\* datetime values, counted in microseconds, and their ISO-8601 text
Datetime(t) == [datetime |-> t]
IsDatetime(x) == DOMAIN x = {"datetime"}
IsStr(x) == DOMAIN x = {"iso"}
\* isoformat with timespec='milliseconds', which the code does not ask for
IsoFormatMillis(d) ==
    [iso |-> [seconds |-> d.datetime \div 1000000,
              fraction |-> Some(((d.datetime % 1000000) \div 1000) * 1000)]]

\* datetime.isoformat(): the seconds, and the six digits of the microseconds
\* unless they are zero
IsoFormat(d) ==
    [iso |-> [seconds |-> d.datetime \div 1000000,
              fraction |-> IF d.datetime % 1000000 = 0 THEN None
                           ELSE Some(d.datetime % 1000000)]]

\* datetime.fromisoformat(): a text without fraction has no microseconds
FromIsoFormat(s) ==
    [datetime |-> s.iso.seconds * 1000000
                  + (IF s.iso.fraction = None THEN 0 ELSE s.iso.fraction[1])]

\* save_persisted_data, the copy of one entry with its timestamp as text
SerializeEntry(entry) ==
    IF IsDatetime(entry.timestamp)
    THEN [entry EXCEPT !.timestamp = IsoFormat(entry.timestamp)]
    ELSE entry

\* a text datetime.fromisoformat() parses; any other text makes it raise ValueError
ParsesAsIso(s) == DOMAIN s.iso = {"seconds", "fraction"}

\* entry.copy() exists for a dict (and a list), not for a number
EntryCopyRaises(entry) == "type" \in DOMAIN entry /\ entry.type = "number"

\* load_persisted_data, the copy of one entry with its timestamp parsed; a
\* timestamp that does not parse stays the text it is
ProcessEntry(entry) ==
    IF "timestamp" \in DOMAIN entry /\ IsStr(entry.timestamp) /\ ParsesAsIso(entry.timestamp)
    THEN [entry EXCEPT !.timestamp = FromIsoFormat(entry.timestamp)]
    ELSE entry

\* load_persisted_data, first half: the branch taken for urls.json.  The
\* except clause names json.JSONDecodeError and IOError; the UnicodeDecodeError
\* of a file that is no text passes it.
UrlsBranch(file) ==
    IF file.kind = "missing" THEN "defaults"
    ELSE IF file.kind = "undecodable" THEN "raise"
    ELSE IF file.kind = "invalid_json" THEN "defaults"
    ELSE IF file.value.type = "list" THEN "file"
    ELSE "defaults"

\* load_persisted_data, second half: the branch taken for history.json.  The
\* loops over loaded_history.items() run inside a try that catches neither
\* the TypeError of "for entry in 5" nor the AttributeError of (5).copy().
HistoryBranch(file) ==
    IF file.kind = "missing" THEN "empty"
    ELSE IF file.kind = "undecodable" THEN "raise"
    ELSE IF file.kind = "invalid_json" THEN "empty"
    ELSE IF file.value.type = "object"
    THEN LET loaded == file.value.members
         IN  IF \E u \in DOMAIN loaded :
                    \/ loaded[u].type # "list"
                    \/ \E j \in 1..Len(loaded[u].items) : EntryCopyRaises(loaded[u].items[j])
             THEN "raise"
             ELSE "file"
    ELSE "empty"

\* load_persisted_data, first half: the url list read from urls.json
LoadUrls(file) ==
    IF file.kind = "missing" THEN DefaultUrls
    ELSE IF file.kind = "invalid_json" THEN DefaultUrls
    ELSE IF file.value.type = "list" THEN file.value.items
    ELSE DefaultUrls

\* load_persisted_data, second half: the history read from history.json
LoadHistory(file) ==
    IF file.kind = "missing" THEN EmptyDict
    ELSE IF file.kind = "invalid_json" THEN EmptyDict
    ELSE IF file.value.type = "object"
    THEN LET loaded == file.value.members
         IN  [u \in DOMAIN loaded |->
                [j \in 1..Len(loaded[u].items) |-> ProcessEntry(loaded[u].items[j])]]
    ELSE EmptyDict

\* What one "with open(..., 'w')" block of save_persisted_data can do.
IoOutcomes == {"ok", "open_fails", "write_fails"}

\* save_persisted_data, first try block: json.dump(urls) into urls.json
SaveUrls(file, list, io) ==
    IF io = "ok" THEN JsonFile(JList(list))
    ELSE IF io = "open_fails" THEN file
    ELSE InvalidJson

\* save_persisted_data as it would be without its second block
SaveHistorySkipped(file, hist, io) == file

\* save_persisted_data, second try block: json.dump(history_to_save) into history.json
SaveHistory(file, hist, io) ==
    IF io = "ok"
    THEN JsonFile(JObject(
            [u \in DOMAIN hist |->
                JList([j \in 1..Len(hist[u]) |-> SerializeEntry(hist[u][j])])]))
    ELSE IF io = "open_fails" THEN file
    ELSE InvalidJson

(***************************************************************************)
(* check_url_health.  requests.get answers with a response, raises a       *)
(* requests.exceptions.RequestException, or raises something else.         *)
(***************************************************************************)
Response(code, micros) == [kind |-> "response", status_code |-> code, elapsed |-> micros]
RequestException(msg) == [kind |-> "RequestException", message |-> msg]
OtherException == [kind |-> "OtherException"]

\* round((end_time - start_time) * 1000, 2): elapsed microseconds to hundredths of a ms
RoundMs(micros) == (micros + 5) \div 10

Returns(v) == [kind |-> "return", value |-> v]
Raises == [kind |-> "raise"]

\* check_url_health as it would be with redirects counted as UP
CheckUrlHealthRedirectsUp(url, reply, t) ==
    IF reply.kind = "response"
    THEN Returns([url |-> url,
                  status |-> IF 200 <= reply.status_code /\ reply.status_code < 400
                             THEN "UP" ELSE "DOWN",
                  response_time |-> Some(RoundMs(reply.elapsed)),
                  status_code |-> Some(reply.status_code),
                  timestamp |-> Datetime(t),
                  error |-> None])
    ELSE IF reply.kind = "RequestException"
    THEN Returns([url |-> url,
                  status |-> "DOWN",
                  response_time |-> None,
                  status_code |-> None,
                  timestamp |-> Datetime(t),
                  error |-> Some(reply.message)])
    ELSE Raises

CheckUrlHealth(url, reply, t) ==
    IF reply.kind = "response"
    THEN Returns([url |-> url,
                  status |-> IF 200 <= reply.status_code /\ reply.status_code < 300
                             THEN "UP" ELSE "DOWN",
                  response_time |-> Some(RoundMs(reply.elapsed)),
                  status_code |-> Some(reply.status_code),
                  timestamp |-> Datetime(t),
                  error |-> None])
    ELSE IF reply.kind = "RequestException"
    THEN Returns([url |-> url,
                  status |-> "DOWN",
                  response_time |-> None,
                  status_code |-> None,
                  timestamp |-> Datetime(t),
                  error |-> Some(reply.message)])
    ELSE Raises

(***************************************************************************)
(* get_status_summary                                                      *)
(***************************************************************************)
\* sum(1 for ...) over the values of a dict
CountStatus(d, st) == Cardinality({u \in DOMAIN d : d[u].status = st})

\* get_status_summary as it would be without the unchecked urls in down
GetStatusSummaryNoUnchecked(url_list, res) ==
    LET total == Len(url_list)
    IN  IF DOMAIN res = {}
        THEN [total |-> total, up |-> 0, down |-> total]
        ELSE LET active_results ==
                     [u \in {k \in DOMAIN res : k \in Range(url_list)} |-> res[u]]
             IN  [total |-> total,
                  up |-> CountStatus(active_results, "UP"),
                  down |-> CountStatus(active_results, "DOWN")]

GetStatusSummary(url_list, res) ==
    LET total == Len(url_list)
    IN  IF DOMAIN res = {}
        THEN [total |-> total, up |-> 0, down |-> total]
        ELSE LET active_results ==
                     [u \in {k \in DOMAIN res : k \in Range(url_list)} |-> res[u]]
                 up_count == CountStatus(active_results, "UP")
                 down_count == CountStatus(active_results, "DOWN")
                 checked_urls == DOMAIN active_results
                 unchecked_count ==
                     Cardinality({j \in 1..Len(url_list) : url_list[j] \notin checked_urls})
             IN  [total |-> total, up |-> up_count, down |-> down_count + unchecked_count]

(***************************************************************************)
(* check_all_urls, the body of its loop for one url: the result enters the *)
(* local results dict and the url's history, which keeps its last 100.     *)
(***************************************************************************)
\* s[-n:]
LastN(s, n) == IF Len(s) <= n THEN s ELSE SubSeq(s, Len(s) - n + 1, Len(s))

\* the loop body as it would be if it put each result in front of the log
AppendHistoryAtFront(hist, url, result) ==
    LET old == IF url \in DOMAIN hist THEN hist[url] ELSE <<>>
        appended == <<result>> \o old
    IN  DictSet(hist, url,
                IF Len(appended) > HistoryCap THEN LastN(appended, HistoryCap)
                ELSE appended)

\* the loop body as it would be if it appended each result twice
AppendHistoryTwice(hist, url, result) ==
    LET old == IF url \in DOMAIN hist THEN hist[url] ELSE <<>>
        appended == Append(Append(old, result), result)
    IN  DictSet(hist, url,
                IF Len(appended) > HistoryCap THEN LastN(appended, HistoryCap)
                ELSE appended)

AppendHistory(hist, url, result) ==
    LET old == IF url \in DOMAIN hist THEN hist[url] ELSE <<>>
        appended == Append(old, result)
    IN  DictSet(hist, url,
                IF Len(appended) > HistoryCap THEN LastN(appended, HistoryCap)
                ELSE appended)

(***************************************************************************)
(* The environment of the dashboard specification.                         *)
(***************************************************************************)
\* urls.json as the first script run may find it
InitialUrlsFiles ==
    { Missing,
      JsonFile(JList(<<"http://a">>)),
      JsonFile(JList(<<"http://a", "http://a">>)) }

\* what the operator may type into "Add new URL"
UrlInputs == {"", "http://a", "https://b", "ftp://c"}

\* what requests.get may do in a run of the dashboard
RunReplies ==
    { Response(200, 1234), RequestException("Request timed out"), OtherException }

IoFailed(io) == IF io = "ok" THEN 0 ELSE 1

\* Is timedelta.total_seconds() >= refresh_interval?  A last_auto_check set
\* to now - refresh_interval is at least that old; one set to now by a
\* finished auto check is as old as the time that has passed since.
AutoCheckDue(lac, elapsed) ==
    IF lac = "now_minus_interval" THEN TRUE ELSE elapsed

Init ==
    /\ urls_file \in InitialUrlsFiles
    /\ history_file = Missing
    /\ urls = LoadUrls(urls_file)
    /\ history = LoadHistory(history_file)
    /\ results = EmptyDict
    /\ checking_in_progress = FALSE
    /\ last_auto_check = "absent"
    /\ auto_refresh = FALSE
    /\ pc = "add"
    /\ click = "none"
    /\ new_url = ""
    /\ remove_idx = 0
    /\ button_disabled = FALSE
    /\ run_i = 0
    /\ run_results = EmptyDict
    /\ run_mode = "none"
    /\ now = 0
    /\ probe = [called |-> FALSE]
    /\ io_failures = 0
    /\ started = 0
    /\ accepted = 0
    /\ probed = <<>>
    /\ events = 0

session == <<urls, history, results, checking_in_progress, last_auto_check>>
files == <<urls_file, history_file, io_failures>>
widgets == <<auto_refresh, new_url, remove_idx>>
loop == <<run_i, run_results, run_mode, now, probed>>
ghosts == <<started, accepted>>

\* a user event is counted
CountEvent(limit) == events < limit /\ events' = events + 1

\* st.rerun(): the script run ends here and a new one starts with no button pressed
Rerun == pc' = "start" /\ click' = "none"

\* The browser sends an event when no script runs; a press of Check Now or a
\* change of the checkbox may also arrive while a rerun is on its way.
CanInteract == pc = "wait" /\ click = "none"
CanInterject == pc \in {"wait", "start"} /\ click = "none"

(***************************************************************************)
(* User events.  Each one starts a script run.                             *)
(***************************************************************************)
ClickAddUrl(text) ==
    /\ CanInteract /\ CountEvent(MaxEvents)
    /\ Len(urls) < MaxUrls
    /\ click' = "add"
    /\ new_url' = text
    /\ pc' = "start"
    /\ UNCHANGED <<session, files, auto_refresh, remove_idx, button_disabled,
                   loop, probe, ghosts>>

ClickRemove(idx) ==
    /\ CanInteract /\ CountEvent(MaxEvents)
    /\ idx \in 1..Len(urls)
    /\ click' = "remove"
    /\ remove_idx' = idx
    /\ pc' = "start"
    /\ UNCHANGED <<session, files, auto_refresh, new_url, button_disabled,
                   loop, probe, ghosts>>

ClickCheckNow(limit) ==
    /\ CanInterject /\ CountEvent(limit)
    /\ ~button_disabled
    /\ click' = "check_now"
    /\ pc' = "start"
    /\ UNCHANGED <<session, files, widgets, button_disabled, loop, probe, ghosts>>

ToggleAutoRefresh ==
    /\ CanInterject /\ CountEvent(MaxEvents)
    /\ auto_refresh' = ~auto_refresh
    /\ pc' = "start"
    /\ UNCHANGED <<session, files, click, new_url, remove_idx, button_disabled,
                   loop, probe, ghosts>>

(***************************************************************************)
(* A script run: main() constructs the dashboard, then run().              *)
(***************************************************************************)
\* __init__: load_persisted_data overwrites urls and history from the files.
\* The locals of the script run before are gone.
Construct ==
    /\ pc = "start"
    /\ UrlsBranch(urls_file) # "raise" /\ HistoryBranch(history_file) # "raise"
    /\ urls' = LoadUrls(urls_file)
    /\ history' = LoadHistory(history_file)
    /\ run_i' = 0 /\ run_results' = EmptyDict /\ run_mode' = "none" /\ probed' = <<>>
    /\ pc' = "add"
    /\ UNCHANGED <<results, checking_in_progress, last_auto_check, files, widgets,
                   click, button_disabled, now, probe, ghosts>>
    /\ UNCHANGED events

\* __init__: load_persisted_data raises, the script run ends in the exception.
\* What was loaded before the raise is in the session.
ConstructRaises ==
    /\ pc = "start"
    /\ UrlsBranch(urls_file) = "raise" \/ HistoryBranch(history_file) = "raise"
    /\ urls' = IF UrlsBranch(urls_file) = "raise" THEN urls ELSE LoadUrls(urls_file)
    /\ pc' = "crashed"
    /\ UNCHANGED <<history, results, checking_in_progress, last_auto_check, files, widgets,
                   click, button_disabled, loop, probe, ghosts, events>>

\* save_persisted_data as it would be with both writes in one try block
SavePersistedDataOneTry(url_list, hist, uio, hio, io_limit) ==
    /\ io_failures + IoFailed(uio) + IoFailed(hio) <= io_limit
    /\ urls_file' = SaveUrls(urls_file, url_list, uio)
    /\ history_file' = IF uio = "ok" THEN SaveHistory(history_file, hist, hio)
                       ELSE history_file
    /\ io_failures' = io_failures + IoFailed(uio) + IoFailed(hio)

\* save_persisted_data: both files, each write failing on its own
SavePersistedData(url_list, hist, uio, hio, io_limit) ==
    /\ io_failures + IoFailed(uio) + IoFailed(hio) <= io_limit
    /\ urls_file' = SaveUrls(urls_file, url_list, uio)
    /\ history_file' = SaveHistory(history_file, hist, hio)
    /\ io_failures' = io_failures + IoFailed(uio) + IoFailed(hio)

\* the add handler as it would be without the scheme test
IsValidUrlNoCheck(u) == u # ""

\* run(), "Add URL": new_url.startswith(('http://', 'https://'))
IsValidUrl(u) == StartsWith(u, "http://") \/ StartsWith(u, "https://")

\* run(), "Add URL": the button was pressed with a new, well-formed url
AddUrlAccepted ==
    /\ pc = "add"
    /\ click = "add" /\ new_url # ""
    /\ new_url \notin Range(urls)
    /\ IsValidUrl(new_url)
    /\ urls' = Append(urls, new_url)
    /\ \E uio, hio \in IoOutcomes :
          SavePersistedData(urls', history, uio, hio, MaxIoFailures)
    /\ Rerun
    /\ new_url' = ""
    /\ UNCHANGED <<history, results, checking_in_progress, last_auto_check,
                   auto_refresh, remove_idx, button_disabled, loop, probe, ghosts>>
    /\ UNCHANGED events

\* run(), "Add URL": the button was pressed with a duplicate or malformed url
AddUrlRejected ==
    /\ pc = "add"
    /\ click = "add" /\ new_url # ""
    /\ new_url \in Range(urls) \/ ~IsValidUrl(new_url)
    /\ pc' = "remove"
    /\ UNCHANGED <<session, files, widgets, click, button_disabled, loop, probe, ghosts>>
    /\ UNCHANGED events

\* run(), "Add URL": the button was not pressed, or the input is empty
AddUrlSkipped ==
    /\ pc = "add"
    /\ ~(click = "add" /\ new_url # "")
    /\ pc' = "remove"
    /\ UNCHANGED <<session, files, widgets, click, button_disabled, loop, probe, ghosts>>
    /\ UNCHANGED events

\* run(), "Current URLs": the pressed remove_{i} button removes urls[i]
RemoveUrl ==
    /\ pc = "remove"
    /\ click = "remove" /\ remove_idx \in 1..Len(urls)
    /\ LET url == urls[remove_idx]
       IN  /\ urls' = ListRemove(urls, url)
           /\ history' = IF url \in DOMAIN history THEN DictDel(history, url) ELSE history
           /\ results' = IF url \in DOMAIN results THEN DictDel(results, url) ELSE results
    /\ \E uio, hio \in IoOutcomes :
          SavePersistedData(urls', history', uio, hio, MaxIoFailures)
    /\ Rerun
    /\ remove_idx' = 0 /\ new_url' = ""
    /\ UNCHANGED <<checking_in_progress, last_auto_check, auto_refresh,
                   button_disabled,
                   loop, probe, ghosts>>
    /\ UNCHANGED events

\* run(), "Current URLs": no remove button of the list was pressed
RemoveSkipped ==
    /\ pc = "remove"
    /\ ~(click = "remove" /\ remove_idx \in 1..Len(urls))
    /\ pc' = "check_now"
    /\ remove_idx' = 0 /\ new_url' = ""
    /\ UNCHANGED <<session, files, auto_refresh, click, button_disabled, loop, probe, ghosts>>
    /\ UNCHANGED events

\* check_all_urls is entered: results = {} and the loop starts
EnterCheckAllUrls(mode, budget) ==
    /\ now + Len(urls) <= budget
    /\ pc' = "check_all_urls"
    /\ run_mode' = mode
    /\ run_i' = 0
    /\ run_results' = EmptyDict
    /\ probed' = <<>>
    /\ started' = started + 1
    /\ UNCHANGED now

\* run(), "Check Now": the pressed button sets the flag and reruns
CheckNowPressed ==
    /\ pc = "check_now"
    /\ click = "check_now"
    /\ button_disabled' = checking_in_progress
    /\ checking_in_progress' = TRUE
    /\ accepted' = IF checking_in_progress THEN accepted ELSE accepted + 1
    /\ Rerun
    /\ UNCHANGED <<urls, history, results, last_auto_check, files, widgets, loop,
                   probe, started>>
    /\ UNCHANGED events

\* run(), "Check Now": the flag is set and auto refresh is off, the manual check starts
ManualCheckStart(budget) ==
    /\ pc = "check_now"
    /\ click # "check_now"
    /\ checking_in_progress /\ ~auto_refresh
    /\ button_disabled' = checking_in_progress
    /\ EnterCheckAllUrls("manual", budget)
    /\ UNCHANGED <<session, files, widgets, click, probe, accepted>>
    /\ UNCHANGED events

\* run(), "Check Now": nothing to do
CheckNowSkipped ==
    /\ pc = "check_now"
    /\ click # "check_now"
    /\ ~(checking_in_progress /\ ~auto_refresh)
    /\ button_disabled' = checking_in_progress
    /\ pc' = "auto_refresh"
    /\ UNCHANGED <<session, files, widgets, click, loop, probe, ghosts>>
    /\ UNCHANGED events

\* the assignment as it would be if the run's dict were merged into the snapshot
PublishResultsMerged(old, run) ==
    [u \in (DOMAIN old) \cup (DOMAIN run) |-> IF u \in DOMAIN run THEN run[u] ELSE old[u]]

\* check_all_urls, after the loop: st.session_state.results = results
PublishResults(old, run) == run

\* the loop as it would be if it wrote each result into the session's snapshot
SnapshotWrittenInLoop(snapshot, url, result) == DictSet(snapshot, url, result)

\* check_all_urls, results[url] = result: the loop fills its local dict, the
\* session's snapshot is what it was
SnapshotDuringRun(snapshot, url, result) == snapshot

\* check_all_urls, one pass of the loop: check_url_health returns a result
CheckUrlReturns(reply) ==
    /\ pc = "check_all_urls"
    /\ run_i < Len(urls)
    /\ LET url == urls[run_i + 1]
           call == CheckUrlHealth(url, reply, now + 1)
       IN  /\ call.kind = "return"
           /\ run_results' = DictSet(run_results, url, call.value)
           /\ history' = AppendHistory(history, url, call.value)
           /\ probed' = Append(probed, url)
           /\ results' = SnapshotDuringRun(results, url, call.value)
    /\ run_i' = run_i + 1
    /\ now' = now + 1
    /\ UNCHANGED <<urls, checking_in_progress, last_auto_check, files, widgets,
                   pc, click, button_disabled, run_mode, probe, ghosts>>
    /\ UNCHANGED events

\* check_all_urls, one pass of the loop: check_url_health raises, which ends
\* the script run where it stands
CheckUrlRaises(reply) ==
    /\ pc = "check_all_urls"
    /\ run_i < Len(urls)
    /\ CheckUrlHealth(urls[run_i + 1], reply, now + 1).kind = "raise"
    /\ probed' = Append(probed, urls[run_i + 1])
    /\ now' = now + 1
    /\ pc' = "wait"
    /\ UNCHANGED <<session, files, widgets, click, button_disabled, run_i, run_results,
                   run_mode, probe, ghosts>>
    /\ UNCHANGED events

\* check_all_urls after the loop: the snapshot is replaced, the files are
\* saved and the results are returned
CheckAllUrlsReturns(io_limit) ==
    /\ pc = "check_all_urls"
    /\ run_i = Len(urls)
    /\ results' = PublishResults(results, run_results)
    /\ \E uio, hio \in IoOutcomes : SavePersistedData(urls, history, uio, hio, io_limit)
    /\ pc' = "checked"
    /\ UNCHANGED <<urls, history, checking_in_progress, last_auto_check, widgets, click,
                   button_disabled, loop, probe, started, accepted>>
    /\ UNCHANGED events

\* run(), after check_all_urls: the flag is reset (and an auto check notes
\* its time), then the script reruns
CheckDone ==
    /\ pc = "checked"
    /\ checking_in_progress' = FALSE
    /\ last_auto_check' = IF run_mode = "auto" THEN "now" ELSE last_auto_check
    /\ Rerun
    /\ UNCHANGED <<urls, history, results, files, widgets, button_disabled, loop,
                   probe, ghosts>>
    /\ UNCHANGED events

\* run(), "Auto-refresh logic" and the rendering of tables and charts after it
AutoRefreshSection(budget) ==
    /\ pc = "auto_refresh"
    /\ \E elapsed \in BOOLEAN :
         LET lac == IF last_auto_check = "absent"
                    THEN "now_minus_interval" ELSE last_auto_check
         IN  IF ~auto_refresh
             THEN /\ pc' = "wait"
                  /\ UNCHANGED <<session, click, loop, started, accepted>>
             ELSE IF AutoCheckDue(lac, elapsed)
             THEN /\ last_auto_check' = lac
                  /\ checking_in_progress' = TRUE
                  /\ accepted' = IF checking_in_progress THEN accepted ELSE accepted + 1
                  /\ Rerun
                  /\ UNCHANGED <<urls, history, results, loop, started>>
             ELSE IF checking_in_progress
             THEN /\ last_auto_check' = lac
                  /\ EnterCheckAllUrls("auto", budget)
                  /\ UNCHANGED <<urls, history, results, checking_in_progress, click,
                                 accepted>>
             ELSE /\ last_auto_check' = lac
                  /\ pc' = "wait"
                  /\ UNCHANGED <<urls, history, results, checking_in_progress, click,
                                 loop, started, accepted>>
    /\ UNCHANGED <<files, widgets, button_disabled, probe>>
    /\ UNCHANGED events

Next ==
    \/ \E text \in UrlInputs : ClickAddUrl(text)
    \/ \E idx \in 1..(MaxUrls + 1) : ClickRemove(idx)
    \/ ClickCheckNow(MaxEvents)
    \/ ToggleAutoRefresh
    \/ Construct
    \/ AddUrlAccepted
    \/ AddUrlRejected
    \/ AddUrlSkipped
    \/ RemoveUrl
    \/ RemoveSkipped
    \/ CheckNowPressed
    \/ ManualCheckStart(MaxProbes)
    \/ CheckNowSkipped
    \/ \E reply \in RunReplies : CheckUrlReturns(reply)
    \/ \E reply \in RunReplies : CheckUrlRaises(reply)
    \/ CheckAllUrlsReturns(MaxIoFailures)
    \/ CheckDone
    \/ AutoRefreshSection(MaxProbes)

Spec == Init /\ [][Next]_vars

(***************************************************************************)
(* The history cap: the same dashboard, pressed Check Now again and again  *)
(* over a short url list, every target answering 200, no write failing.    *)
(***************************************************************************)
InitHist == Init /\ urls_file # Missing

NextHist ==
    \/ ClickCheckNow(MaxHistProbes)
    \/ Construct
    \/ AddUrlSkipped
    \/ RemoveSkipped
    \/ CheckNowPressed
    \/ ManualCheckStart(MaxHistProbes)
    \/ CheckNowSkipped
    \/ CheckUrlReturns(Response(200, 1234))
    \/ CheckAllUrlsReturns(0)
    \/ CheckDone
    \/ AutoRefreshSection(MaxHistProbes)

SpecHist == InitHist /\ [][NextHist]_vars

(***************************************************************************)
(* check_url_health on its own: one call per step, over every kind of      *)
(* answer requests.get can give.                                           *)
(***************************************************************************)
ProbeUrls == {"http://a", "https://b"}
StatusCodes == {100, 199, 200, 204, 299, 300, 301, 404, 500, 599}
ElapsedMicros == {1234, 250000}
ProbeReplies ==
    {Response(c, e) : c \in StatusCodes, e \in ElapsedMicros}
    \cup {RequestException(m) :
            m \in {"Request timed out", "Failed to establish connection", "Invalid URL"}}
    \cup {OtherException}

ProbeCall(url, reply) ==
    /\ probe' = [called |-> TRUE, url |-> url, reply |-> reply,
                 result |-> CheckUrlHealth(url, reply, now + 1)]
    /\ UNCHANGED <<session, files, widgets, pc, click, button_disabled, loop,
                   ghosts, events>>

NextProbe == \E url \in ProbeUrls, reply \in ProbeReplies : ProbeCall(url, reply)

SpecProbe == Init /\ [][NextProbe]_vars

(***************************************************************************)
(* Persistence on its own: a url list and a history as checks produce it   *)
(* are saved, both writes succeeding, and the next script run loads them.  *)
(***************************************************************************)
PersistUrlLists ==
    { <<>>, <<"http://a">>, <<"http://a", "https://b">>, <<"https://b", "http://a">> }

\* whole seconds, a whole millisecond and a time with all six digits
PersistTimes == {0, 1000000, 1001000, 1234567}

PersistReplies == { Response(200, 1234), RequestException("Request timed out") }

PersistOutcomes(url) ==
    { CheckUrlHealth(url, reply, t).value : reply \in PersistReplies, t \in PersistTimes }

PersistLogs(url) ==
    { <<>> } \cup { <<o>> : o \in PersistOutcomes(url) }
    \cup { <<o1, o2>> : o1 \in PersistOutcomes(url), o2 \in PersistOutcomes(url) }

PersistHistories ==
    { EmptyDict }
    \cup { [u \in {"http://a"} |-> la] : la \in PersistLogs("http://a") }
    \cup { [u \in {"http://a", "https://b"} |-> IF u = "http://a" THEN la ELSE lb] :
             la \in PersistLogs("http://a"), lb \in PersistLogs("https://b") }

InitPersist ==
    /\ urls \in PersistUrlLists
    /\ history \in PersistHistories
    /\ urls_file = Missing
    /\ history_file = Missing
    /\ results = EmptyDict
    /\ checking_in_progress = FALSE
    /\ last_auto_check = "absent"
    /\ auto_refresh = FALSE
    /\ pc = "save"
    /\ click = "none"
    /\ new_url = ""
    /\ remove_idx = 0
    /\ button_disabled = FALSE
    /\ run_i = 0
    /\ run_results = EmptyDict
    /\ run_mode = "none"
    /\ now = 0
    /\ probe = [called |-> FALSE]
    /\ io_failures = 0
    /\ started = 0
    /\ accepted = 0
    /\ probed = <<>>
    /\ events = 0

\* save_persisted_data with both writes succeeding, then st.rerun()
PersistSave ==
    /\ pc = "save"
    /\ SavePersistedData(urls, history, "ok", "ok", 0)
    /\ Rerun
    /\ UNCHANGED <<session, widgets, button_disabled, loop, probe, ghosts, events>>

NextPersist ==
    \/ PersistSave
    \/ Construct

SpecPersist == InitPersist /\ [][NextPersist]_vars

(***************************************************************************)
(* Loading on its own: the first script run of a session finds the two     *)
(* files in any state an editor, another program or a broken disk can      *)
(* leave them in.                                                          *)
(***************************************************************************)
LoadUrlsFiles ==
    { Missing, InvalidJson, Undecodable,
      JsonFile(JList(<<>>)),
      JsonFile(JList(<<"http://a">>)),
      JsonFile(JList(<<"http://a", "https://b">>)),
      JsonFile(JList(<<"http://a", "http://a">>)),
      JsonFile(JObject([u \in {"http://a"} |-> JList(<<>>)])),
      JsonFile(JNumber(5)) }

LoadEntryOk == SerializeEntry(CheckUrlHealth("http://a", Response(200, 1234), 1234567).value)
LoadEntryDown ==
    SerializeEntry(CheckUrlHealth("http://a", RequestException("Request timed out"), 2000000).value)
LoadEntryOddTime == [LoadEntryOk EXCEPT !.timestamp = [iso |-> [garbage |-> TRUE]]]

\* a log one entry longer than check_all_urls would ever leave it
LoadLongLog == [j \in 1..(HistoryCap + 1) |-> LoadEntryOk]

LoadHistoryFiles ==
    { Missing, InvalidJson, Undecodable,
      JsonFile(JObject([u \in {"http://a"} |-> JList(LoadLongLog)])),
      JsonFile(JObject(EmptyDict)),
      JsonFile(JObject([u \in {"http://a"} |-> JList(<<LoadEntryOk>>)])),
      JsonFile(JObject([u \in {"http://a"} |-> JList(<<LoadEntryOk, LoadEntryDown>>)])),
      JsonFile(JObject([u \in {"http://a"} |-> JList(<<LoadEntryOddTime>>)])),
      JsonFile(JObject([u \in {"http://a"} |-> JNumber(5)])),
      JsonFile(JObject([u \in {"http://a"} |-> JList(<<JNumber(5)>>)])),
      JsonFile(JList(<<>>)),
      JsonFile(JNumber(5)) }

\* a fresh session at the start of its first script run: nothing loaded yet
InitLoad ==
    /\ urls_file \in LoadUrlsFiles
    /\ history_file \in LoadHistoryFiles
    /\ urls = <<>>
    /\ history = EmptyDict
    /\ results = EmptyDict
    /\ checking_in_progress = FALSE
    /\ last_auto_check = "absent"
    /\ auto_refresh = FALSE
    /\ pc = "start"
    /\ click = "none"
    /\ new_url = ""
    /\ remove_idx = 0
    /\ button_disabled = FALSE
    /\ run_i = 0
    /\ run_results = EmptyDict
    /\ run_mode = "none"
    /\ now = 0
    /\ probe = [called |-> FALSE]
    /\ io_failures = 0
    /\ started = 0
    /\ accepted = 0
    /\ probed = <<>>
    /\ events = 0

NextLoad ==
    \/ Construct
    \/ ConstructRaises

SpecLoad == InitLoad /\ [][NextLoad]_vars

(***************************************************************************)
(* Two sessions on the same files.  Every browser session has its own      *)
(* st.session_state and runs the same script in the same directory.  The   *)
(* session of the variables is followed step by step; of the second        *)
(* session only the script runs that check are followed, each as one step  *)
(* from its load to its save.                                              *)
(***************************************************************************)
\* check_all_urls, the whole loop: the history after the urls of the list
\* were checked one after the other from time t on
RECURSIVE CheckAllUrlsHistory(_, _, _, _)
CheckAllUrlsHistory(hist, list, t, reply) ==
    IF list = <<>> THEN hist
    ELSE CheckAllUrlsHistory(
             AppendHistory(hist, Head(list), CheckUrlHealth(Head(list), reply, t + 1).value),
             Tail(list), t + 1, reply)

\* a script run of the second session with its flag set: __init__ loads the
\* files, check_all_urls checks every url and saves
OtherSessionRun(reply) ==
    /\ reply.kind # "OtherException"
    /\ UrlsBranch(urls_file) # "raise" /\ HistoryBranch(history_file) # "raise"
    /\ LET other_urls == LoadUrls(urls_file)
           other_history == CheckAllUrlsHistory(LoadHistory(history_file), other_urls, now, reply)
       IN  /\ now + Len(other_urls) <= MaxProbes
           /\ Len(other_urls) > 0
           /\ now' = now + Len(other_urls)
           /\ SavePersistedData(other_urls, other_history, "ok", "ok", MaxIoFailures)
    /\ UNCHANGED <<session, widgets, pc, click, button_disabled, run_i, run_results,
                   run_mode, probed, probe, ghosts, events>>

NextShared ==
    \/ ClickCheckNow(MaxEvents)
    \/ Construct
    \/ AddUrlSkipped
    \/ RemoveSkipped
    \/ CheckNowPressed
    \/ ManualCheckStart(MaxProbes)
    \/ CheckNowSkipped
    \/ CheckUrlReturns(Response(200, 1234))
    \/ CheckAllUrlsReturns(0)
    \/ CheckDone
    \/ AutoRefreshSection(MaxProbes)
    \/ OtherSessionRun(Response(200, 1234))

SpecShared == Init /\ [][NextShared]_vars

(***************************************************************************)
(* create_history_chart on its own, called with a list of selected urls as *)
(* run() calls it, over histories as checks produce them.  A chart is the  *)
(* sequence of its traces; a trace has a name and the x and y of its       *)
(* points.                                                                 *)
(***************************************************************************)
\* the rows of the data frame: for url in selected_urls, for entry in history[url]
RECURSIVE ChartRows(_, _)
ChartRows(hist, selected) ==
    IF selected = <<>> THEN <<>>
    ELSE LET url == Head(selected)
             rows == IF url \in DOMAIN hist
                     THEN [j \in 1..Len(hist[url]) |->
                             [Timestamp |-> hist[url][j].timestamp,
                              Status |-> IF hist[url][j].status = "UP" THEN 1 ELSE 0,
                              URL |-> url]]
                     ELSE <<>>
         IN  rows \o ChartRows(hist, Tail(selected))

\* the rows of one column as a sequence
RowTimestamps(rows) == [j \in 1..Len(rows) |-> rows[j].Timestamp]
RowStatuses(rows) == [j \in 1..Len(rows) |-> rows[j].Status]

\* df[df['URL'] == url]
RowsOf(rows, url) == LET Is(row) == row.URL = url IN SelectSeq(rows, Is)

\* the loop of traces as it would be with url_data = df, the filter forgotten
RECURSIVE ChartTracesUnfiltered(_, _)
ChartTracesUnfiltered(rows, selected) ==
    IF selected = <<>> THEN <<>>
    ELSE (IF RowsOf(rows, Head(selected)) # <<>>
          THEN << [name |-> Head(selected),
                   x |-> RowTimestamps(rows),
                   y |-> RowStatuses(rows)] >>
          ELSE <<>>)
         \o ChartTracesUnfiltered(rows, Tail(selected))

\* for url in selected_urls: a trace of the url's rows unless there are none
RECURSIVE ChartTraces(_, _)
ChartTraces(rows, selected) ==
    IF selected = <<>> THEN <<>>
    ELSE (IF RowsOf(rows, Head(selected)) # <<>>
          THEN << [name |-> Head(selected),
                   x |-> RowTimestamps(RowsOf(rows, Head(selected))),
                   y |-> RowStatuses(RowsOf(rows, Head(selected)))] >>
          ELSE <<>>)
         \o ChartTraces(rows, Tail(selected))

CreateHistoryChart(hist, selected) ==
    IF DOMAIN hist = {} THEN None
    ELSE IF selected = <<>> THEN None
    ELSE LET rows == ChartRows(hist, selected)
         IN  IF rows = <<>> THEN None
             ELSE Some(ChartTraces(rows, selected))

\* what st.multiselect may return: distinct urls in the order of selection
ChartSelections ==
    { <<>>, <<"http://a">>, <<"https://b">>, <<"http://c">>,
      <<"http://a", "https://b">>, <<"https://b", "http://a">>,
      <<"http://c", "https://b">> }

\* the session holds any history checks can produce
InitChart == InitPersist /\ urls = <<"http://a", "https://b">>

HistoryQuery(selected) ==
    /\ probe' = [called |-> TRUE, selected |-> selected,
                 chart |-> CreateHistoryChart(history, selected)]
    /\ UNCHANGED <<session, files, widgets, pc, click, button_disabled, loop,
                   ghosts, events>>

NextChart == \E selected \in ChartSelections : HistoryQuery(selected)

SpecChart == InitChart /\ [][NextChart]_vars

(***************************************************************************)
(* Progress.  The operator presses Check Now and switches auto refresh as  *)
(* they like, and need not do anything; a script run that has started goes *)
(* on step by step until it ends, reruns or waits for the next event.      *)
(***************************************************************************)
\* every run the events can start has the clock ticks it needs
LiveProbes == MaxEvents * MaxUrls

ScriptStep ==
    \/ Construct
    \/ AddUrlSkipped
    \/ RemoveSkipped
    \/ CheckNowPressed
    \/ ManualCheckStart(LiveProbes)
    \/ CheckNowSkipped
    \/ \E reply \in RunReplies : CheckUrlReturns(reply)
    \/ \E reply \in RunReplies : CheckUrlRaises(reply)
    \/ CheckAllUrlsReturns(0)
    \/ CheckDone
    \/ AutoRefreshSection(LiveProbes)

NextLive ==
    \/ ClickCheckNow(MaxEvents)
    \/ ToggleAutoRefresh
    \/ ScriptStep

SpecLive == Init /\ [][NextLive]_vars /\ WF_vars(ScriptStep)

(***************************************************************************)
(* The claims.                                                             *)
(***************************************************************************)
Min(a, b) == IF a <= b THEN a ELSE b

\* C1: in every reachable state get_status_summary yields up + down = total.
C1_UpPlusDownIsTotal ==
    LET summary == GetStatusSummary(urls, results)
    IN  summary.up + summary.down = summary.total

\* C2: at the end of the N-th check_all_urls run over a history that began
\* empty, every target's log has exactly min(N, 100) entries, oldest first,
\* the last of them this run's outcome.
C2_LogHoldsLastRuns ==
    pc = "checked" =>
        \A u \in Range(urls) :
            /\ u \in DOMAIN history
            /\ LET log == history[u]
               IN  /\ Len(log) = Min(started, HistoryCap)
                   /\ log[Len(log)] = results[u]
                   /\ \A j \in 1..(Len(log) - 1) :
                        log[j].timestamp.datetime < log[j + 1].timestamp.datetime

Aborted == run_mode # "none" /\ run_i < Len(urls)

\* C4: after a save, failed or not, the state in memory stays what it is
\* through every rerun: the start of a script run changes neither the urls,
\* nor the history, nor the snapshot.
C4_MemoryStaysAuthoritative ==
    [][(pc = "start" /\ ~Aborted)
         => (urls' = urls /\ history' = history /\ results' = results)]_vars

\* C5: for a received response the outcome is UP exactly for 200 <= code < 300
\* and DOWN otherwise, with the code, a response time and no error.
C5_ResponseClassified ==
    (probe.called /\ probe.reply.kind = "response") =>
        /\ probe.result.kind = "return"
        /\ LET outcome == probe.result.value
               code == probe.reply.status_code
           IN  /\ outcome.status \in {"UP", "DOWN"}
               /\ (outcome.status = "UP") <=> (200 <= code /\ code < 300)
               /\ outcome.status_code = Some(code)
               /\ outcome.response_time # None
               /\ outcome.error = None
               /\ outcome.url = probe.url

\* a 404 was received and classified DOWN
C5_Witness ==
    /\ probe.called
    /\ probe.reply.kind = "response"
    /\ probe.reply.status_code = 404
    /\ probe.result.kind = "return"
    /\ probe.result.value.status = "DOWN"

\* C6: whatever makes the request fail, check_url_health returns an outcome
\* that is DOWN, without response time and status code, with a non-empty error.
C6_ProbeNeverRaises ==
    (probe.called /\ probe.reply.kind # "response") =>
        /\ probe.result.kind = "return"
        /\ probe.result.value.status = "DOWN"
        /\ probe.result.value.response_time = None
        /\ probe.result.value.status_code = None
        /\ probe.result.value.error # None
        /\ probe.result.value.error # Some("")

\* C7: total counts the configured urls; with an empty snapshot up is 0 and
\* down is total; otherwise up counts the UP entries of configured targets and
\* down the DOWN entries of configured targets plus the configured urls that
\* have no entry.  Entries of targets not configured count nowhere.
C7_SummaryCounts ==
    LET summary == GetStatusSummary(urls, results)
        configured == Range(urls)
        ups == {u \in DOMAIN results : u \in configured /\ results[u].status = "UP"}
        downs == {u \in DOMAIN results : u \in configured /\ results[u].status = "DOWN"}
        unchecked == {j \in DOMAIN urls : urls[j] \notin DOMAIN results}
    IN  /\ summary.total = Len(urls)
        /\ DOMAIN results = {} => (summary.up = 0 /\ summary.down = summary.total)
        /\ DOMAIN results # {} =>
             /\ summary.up = Cardinality(ups)
             /\ summary.down = Cardinality(downs) + Cardinality(unchecked)

\* the snapshot holds an UP entry and a DOWN entry of configured targets, and
\* a configured url has no entry
C7_Witness ==
    /\ \E u \in DOMAIN results : u \in Range(urls) /\ results[u].status = "UP"
    /\ \E u \in DOMAIN results : u \in Range(urls) /\ results[u].status = "DOWN"
    /\ \E j \in DOMAIN urls : urls[j] \notin DOMAIN results

\* C8: the remove handler leaves the removed target in none of urls, history
\* and snapshot, leaves every other target's history and snapshot entry as
\* it was, and the files (when written) hold the new state.
C8_RemoveIsCoordinated ==
    [][(pc = "remove" /\ click = "remove" /\ remove_idx \in 1..Len(urls))
         => LET url == urls[remove_idx]
            IN  /\ url \notin Range(urls')
                /\ url \notin DOMAIN history'
                /\ url \notin DOMAIN results'
                /\ \A u \in DOMAIN history \ {url} :
                     u \in DOMAIN history' /\ history'[u] = history[u]
                /\ \A u \in DOMAIN results \ {url} :
                     u \in DOMAIN results' /\ results'[u] = results[u]
                /\ io_failures' = io_failures =>
                     /\ LoadUrls(urls_file') = urls'
                     /\ LoadHistory(history_file') = history']_vars

\* C9: the add handler, given a url that is already configured or that does
\* not start with http:// or https://, changes neither urls, history and
\* snapshot nor the files.
C9_RejectedAddChangesNothing ==
    [][(/\ pc = "add" /\ click = "add"
        /\ \/ new_url \in Range(urls)
           \/ ~(StartsWith(new_url, "http://") \/ StartsWith(new_url, "https://")))
         => /\ urls' = urls /\ history' = history /\ results' = results
            /\ urls_file' = urls_file /\ history_file' = history_file]_vars

\* the add handler has just turned away a non-empty url
C9_Witness ==
    /\ pc = "remove" /\ click = "add"
    /\ new_url \in {"ftp://c", "http://a"}

C11_SnapshotNeverMixed ==
    /\ pc = "check_all_urls" =>
          \A u \in DOMAIN results : results[u].timestamp.datetime <= now - run_i
    /\ pc = "checked" =>
          /\ results = run_results
          /\ \A u \in DOMAIN results : results[u].timestamp.datetime > now - run_i

\* a run is half way through its list while the snapshot of an earlier run
\* is still in place
C11_Witness ==
    /\ pc = "check_all_urls"
    /\ run_i >= 1 /\ run_i < Len(urls)
    /\ DOMAIN run_results # {}
    /\ DOMAIN results # {}

\* C12: after a save whose writes both succeed, load_persisted_data yields
\* the url list that was saved, in its order, and the history that was saved,
\* entry by entry with every timestamp and optional field as it was; the
\* script run that follows the save changes neither.
C12_SaveThenLoadIsIdentity ==
    /\ pc = "start" =>
          /\ LoadUrls(urls_file) = urls
          /\ LoadHistory(history_file) = history
    /\ urls_file # Missing =>
          /\ urls = LoadUrls(urls_file)
          /\ history = LoadHistory(history_file)

\* two targets in an order, a log with a response next to a failure, one
\* timestamp on a whole second and one with microseconds, saved and loaded
C12_Witness ==
    /\ pc = "add"
    /\ urls_file # Missing
    /\ urls = <<"https://b", "http://a">>
    /\ "http://a" \in DOMAIN history
    /\ Len(history["http://a"]) = 2
    /\ history["http://a"][1].timestamp = Datetime(1234567)
    /\ history["http://a"][1].error = None
    /\ history["http://a"][2].timestamp = Datetime(1000000)
    /\ history["http://a"][2].error # None

\* a file that is missing or that json.load cannot read
Unreadable(file) == file.kind \in {"missing", "invalid_json", "undecodable"}

\* C13: once load_persisted_data has run, a missing or unparseable
\* history.json has given an empty history and left the urls to urls.json, a
\* missing or unparseable urls.json has given the default urls and left the
\* history to history.json, and in neither case did the load raise.
C13_LoadTreatsFilesApart ==
    pc # "start" =>
        /\ (Unreadable(history_file) /\ UrlsBranch(urls_file) # "raise") =>
              /\ pc # "crashed"
              /\ history = EmptyDict
              /\ UrlsBranch(urls_file) = "file" => urls = urls_file.value.items
        /\ (Unreadable(urls_file) /\ HistoryBranch(history_file) # "raise") =>
              /\ pc # "crashed"
              /\ urls = DefaultUrls
              /\ HistoryBranch(history_file) = "file" =>
                    history = LoadHistory(history_file)

\* json.load gave a value of the wrong shape: urls.json no list, history.json
\* no object, or an object with a member that is no list of objects
WrongShapeUrls(file) == file.kind = "json" /\ file.value.type # "list"
WrongShapeHistory(file) ==
    /\ file.kind = "json"
    /\ \/ file.value.type # "object"
       \/ \E u \in DOMAIN file.value.members :
             \/ file.value.members[u].type # "list"
             \/ \E j \in 1..Len(file.value.members[u].items) :
                   EntryCopyRaises(file.value.members[u].items[j])

\* C14: once load_persisted_data has run, a urls.json of the wrong shape has
\* given the default urls and left the history to history.json, a
\* history.json of the wrong shape at any level has given the empty history
\* and left the urls to urls.json, and the load did not raise.
C14_WrongShapeFallsBack ==
    pc # "start" =>
        /\ (WrongShapeUrls(urls_file) /\ history_file.kind # "undecodable") =>
              /\ urls = DefaultUrls
              /\ ~WrongShapeHistory(history_file) =>
                    pc # "crashed" /\ history = LoadHistory(history_file)
        /\ (WrongShapeHistory(history_file) /\ urls_file.kind # "undecodable") =>
              /\ pc # "crashed"
              /\ history = EmptyDict
              /\ urls = LoadUrls(urls_file)

\* C15: when one of the two writes of a save fails, the other file holds
\* what was to be saved: a failed urls.json write is followed by the
\* history.json write, a failed history.json write leaves the urls.json just
\* written in place, and the operation that saved goes on as after any save.
C15_SaveTreatsFilesApart ==
    [][(io_failures' = io_failures + 1)
         => /\ pc' \in {"start", "checked"}
            /\ \/ /\ urls_file' = SaveUrls(urls_file, urls', "ok")
                  /\ history_file' \in {history_file, InvalidJson}
               \/ /\ history_file' = SaveHistory(history_file, history', "ok")
                  /\ urls_file' \in {urls_file, InvalidJson}]_vars

\* the urls.json write broke off half way and history.json was written
\* all the same, with the history of a run in it
C15_Witness ==
    /\ io_failures = 1
    /\ urls_file = InvalidJson
    /\ history_file.kind = "json"
    /\ DOMAIN history_file.value.members # {}
    /\ pc = "checked"

\* the number of entries among the first k of the url list that are u
Passed(u, k) == Cardinality({j \in 1..k : urls[j] = u})

C17_MutationsArePersisted ==
    [][(/\ io_failures' = io_failures
        /\ \/ pc = "add" /\ urls' # urls
           \/ pc = "remove" /\ pc' = "start"
           \/ pc = "check_all_urls" /\ pc' = "checked")
         => /\ urls_file'.kind = "json"
            /\ history_file'.kind = "json"
            /\ LoadUrls(urls_file') = urls'
            /\ LoadHistory(history_file') = history']_vars

\* a run has completed and saved without failure, a history with entries
\* is on file
C17_Witness ==
    /\ pc = "checked"
    /\ io_failures = 0
    /\ DOMAIN history # {}
    /\ history_file.kind = "json"
    /\ LoadHistory(history_file) = history
    /\ LoadUrls(urls_file) = urls

\* C18: when a run completes and saves, every url's log on file is the log
\* that was on file before, in its order, followed by this run's outcomes
\* for the url: no outcome that a completed run of any session has stored is
\* lost from it (but for the cap).
C18_NoStoredOutcomeIsLost ==
    [][(pc = "check_all_urls" /\ pc' = "checked" /\ io_failures' = io_failures)
         => LET before == LoadHistory(history_file)
                after == LoadHistory(history_file')
            IN  \A u \in Range(urls) :
                    LET n == Passed(u, Len(urls))
                        old == IF u \in DOMAIN before THEN before[u] ELSE <<>>
                        log == IF u \in DOMAIN after THEN after[u] ELSE <<>>
                    IN  /\ Len(log) = Min(Len(old) + n, HistoryCap)
                        /\ SubSeq(log, 1, Len(log) - n) = LastN(old, Len(log) - n)]_vars

\* C19: in every state, the states right after a load included, no url is
\* in the url list twice.
C19_UrlsHoldNoDuplicate ==
    \A i, j \in 1..Len(urls) : urls[i] = urls[j] => i = j

\* C20: in every state, the states right after a load included, no url's
\* log holds more than 100 entries.
C20_LogsWithinCap ==
    \A u \in DOMAIN history : Len(history[u]) <= HistoryCap

\* the selected urls that have a log with entries, in the order of selection
WithEntries(hist, selected) ==
    LET Has(u) == u \in DOMAIN hist /\ hist[u] # <<>> IN SelectSeq(selected, Has)

\* C21: a history query changes no log; it yields nothing when nothing is
\* selected, when the history is empty or when no selected url has entries;
\* otherwise it yields one trace per selected url that has entries, in the
\* order of selection, each holding that url's entries in log order (time
\* and UP as 1, DOWN as 0), and nothing of any url that is not selected.
C21_HistoryQueryIsSelective ==
    [][probe'.called =>
         LET selected == probe'.selected
             shown == WithEntries(history, selected)
         IN  /\ history' = history
             /\ (probe'.chart = None) <=> (shown = <<>>)
             /\ probe'.chart # None =>
                   LET traces == probe'.chart[1]
                   IN  /\ Len(traces) = Len(shown)
                       /\ \A k \in 1..Len(traces) :
                             LET log == history[shown[k]]
                             IN  /\ traces[k].name = shown[k]
                                 /\ Len(traces[k].x) = Len(log)
                                 /\ Len(traces[k].y) = Len(log)
                                 /\ \A j \in 1..Len(log) :
                                       /\ traces[k].x[j] = log[j].timestamp
                                       /\ (traces[k].y[j] = 1) <=> (log[j].status = "UP")
                                       /\ traces[k].y[j] \in {0, 1}]_vars

\* two urls with logs are in the history, one is selected next to a url
\* without a log, and the chart shows the selected one alone
C21_Witness ==
    /\ probe.called
    /\ probe.selected = <<"http://c", "https://b">>
    /\ DOMAIN history = {"http://a", "https://b"}
    /\ Len(history["https://b"]) = 2
    /\ history["http://a"] # <<>>
    /\ probe.chart # None
    /\ Len(probe.chart[1]) = 1
    /\ probe.chart[1][1].name = "https://b"

\* C22: with auto refresh off, a set flag is always followed by a state in
\* which the flag is reset (or auto refresh was switched on): the flag does
\* not stay set forever.
C22_FlagIsEventuallyReset ==
    (checking_in_progress /\ ~auto_refresh) ~> (~checking_in_progress \/ auto_refresh)

\* C23: with auto refresh on and a check due, the script always gets to a
\* completed check_all_urls run (or auto refresh was switched off): the
\* reruns do not go on forever without a run.
C23_AutoRefreshEventuallyChecks ==
    (auto_refresh /\ pc = "auto_refresh") ~> (~auto_refresh \/ pc = "checked")

\* C24: when check_all_urls has returned, every configured url has a log,
\* the log is not empty, and its last entry is the url's outcome in the
\* snapshot.
C24_LastEntryIsSnapshotEntry ==
    pc = "checked" =>
        \A u \in Range(urls) :
            /\ u \in DOMAIN history
            /\ history[u] # <<>>
            /\ u \in DOMAIN results
            /\ history[u][Len(history[u])] = results[u]

\* the second run over the default urls has returned, every log holds the
\* outcome of the first run and of the second
C24_Witness ==
    /\ pc = "checked"
    /\ urls = DefaultUrls
    /\ \A u \in Range(urls) : u \in DOMAIN history /\ Len(history[u]) = 2

\* C25: when the add handler appends a url, the snapshot and every log stay
\* as they were, the new url has neither a snapshot entry nor a log, and the
\* summary's total and down are each one more than before, up the same.
C25_AddLeavesResultsAndHistory ==
    [][(pc = "add" /\ urls' # urls)
         => LET before == GetStatusSummary(urls, results)
                after == GetStatusSummary(urls', results')
                new == urls'[Len(urls')]
            IN  /\ urls' = Append(urls, new)
                /\ results' = results
                /\ history' = history
                /\ new \notin DOMAIN results'
                /\ new \notin DOMAIN history'
                /\ after.total = before.total + 1
                /\ after.down = before.down + 1
                /\ after.up = before.up]_vars

\* C26: every key of the history and every key of the snapshot is a
\* configured url.
C26_NoOrphanedEntries ==
    /\ DOMAIN history \subseteq Range(urls)
    /\ DOMAIN results \subseteq Range(urls)

====
